---------------------------- MODULE Spec2Model ----------------------------
(***************************************************************************)
(* A model of pubmed_parser (src/PUBMED/src/pubmed_parser/__init__.py):    *)
(* the affiliation classifier, the author extractor, the per-article       *)
(* author loop and the search / fetch / aggregate pipeline.                *)
(*                                                                         *)
(* A Python str is a sequence of one-character strings, so that substring  *)
(* tests, lower-casing, regular-expression searches, f-strings and joins   *)
(* are computed character by character.  An Optional value (None or a      *)
(* value) is a sequence of length 0 (None) or 1 (the value).               *)
(***************************************************************************)
EXTENDS Integers, Sequences, FiniteSets, TLC

VARIABLES
    arg,               \* the argument of the pure function under study
    ret,               \* the value it returned
    phase,             \* "in" before the call, "out" after it, "none" when unused
    pc,                \* the orchestrator's position
    query,             \* fetch_and_filter_pubmed_papers: parameter query
    esearch_calls,     \* the keyword arguments of every Entrez.esearch call
    efetch_calls,      \* the keyword arguments of every Entrez.efetch call
    id_list,           \* record["IdList"]
    xml_data,          \* what handle.read() returned: an Optional document
    root,              \* root.xpath("//PubmedArticle"): the article nodes
    idx,               \* the index of the next article of the for loop
    filtered_papers,   \* the local list of rows built so far
    result,            \* the list returned to the caller
    raised             \* TRUE when an exception reached the caller

vars == <<arg, ret, phase, pc, query, esearch_calls, efetch_calls, id_list,
          xml_data, root, idx, filtered_papers, result, raised>>

pureVars == <<arg, ret, phase>>

orchVars == <<pc, query, esearch_calls, efetch_calls, id_list, xml_data, root,
              idx, filtered_papers, result, raised>>

---------------------------------------------------------------------------
(* Optional values *)

None == << >>

Some(v) == <<v>>

\* Python truthiness of an Optional[str]: None and "" are falsy
Truthy(opt) == opt # None /\ opt[1] # << >>

---------------------------------------------------------------------------
(* Characters and strings *)

UpperChars == <<"A","B","C","D","E","F","G","H","I","J","K","L","M","N","O","P","Q","R","S","T","U","V","W","X","Y","Z">>

LowerChars == <<"a","b","c","d","e","f","g","h","i","j","k","l","m","n","o","p","q","r","s","t","u","v","w","x","y","z">>

DigitChars == <<"0","1","2","3","4","5","6","7","8","9">>

Range(f) == {f[i] : i \in DOMAIN f}

\* str.lower() on one character
LowerChar(c) ==
    IF \E i \in DOMAIN UpperChars : UpperChars[i] = c
    THEN LowerChars[CHOOSE i \in DOMAIN UpperChars : UpperChars[i] = c]
    ELSE c

\* str.lower()
Lower(s) == [i \in DOMAIN s |-> LowerChar(s[i])]

\* the regular expression class \w
IsWordChar(c) == c \in Range(UpperChars) \cup Range(LowerChars) \cup Range(DigitChars) \cup {"_"}

\* the regular expression class [\w\.-]
IsEmailChar(c) == IsWordChar(c) \/ c = "." \/ c = "-"

\* k occurs in s at position i
OccursAt(s, k, i) == i >= 1 /\ i + Len(k) - 1 <= Len(s) /\ SubSeq(s, i, i + Len(k) - 1) = k

\* the Python test `k in s`
Contains(s, k) == \E i \in 1..(Len(s) + 1) : OccursAt(s, k, i)

\* the regular expression assertion \b between s[p] and s[p+1]
WordBoundary(s, p) ==
    LET before == p >= 1 /\ p <= Len(s) /\ IsWordChar(s[p])
        after == p + 1 >= 1 /\ p + 1 <= Len(s) /\ IsWordChar(s[p + 1])
    IN  before # after

\* sep.join(list)
RECURSIVE Join(_, _)
Join(sep, list) ==
    IF list = << >> THEN << >>
    ELSE IF Len(list) = 1 THEN list[1]
    ELSE list[1] \o sep \o Join(sep, Tail(list))

---------------------------------------------------------------------------
(* The keyword lists *)

PHARMA_BIOTECH_KEYWORDS == <<
    <<"p","h","a","r","m","a","c","e","u","t","i","c","a","l">>, <<"b","i","o","t","e","c","h">>, <<"b","i","o","t","e","c","h","n","o","l","o","g","y">>, <<"p","h","a","r","m","a">>,
    <<"i","n","c",".">>, <<"l","l","c">>, <<"c","o","r","p">>, <<"c","o","m","p","a","n","y">>, <<"l","a","b","o","r","a","t","o","r","i","e","s">>,
    <<"l","a","b","s">>, <<"r","e","s","e","a","r","c","h"," ","i","n","s","t","i","t","u","t","e">>, <<"r","&","d">>, <<"d","r","u","g"," ","d","i","s","c","o","v","e","r","y">>,
    <<"c","l","i","n","i","c","a","l"," ","r","e","s","e","a","r","c","h">>, <<"d","i","a","g","n","o","s","t","i","c","s">>, <<"t","h","e","r","a","p","e","u","t","i","c","s">>,
    <<"m","e","d","i","c","i","n","e","s">>, <<"h","e","a","l","t","h","c","a","r","e">>, <<"i","n","s","t","i","t","u","t","e">>, <<"f","o","u","n","d","a","t","i","o","n">>,
    <<"c","e","n","t","e","r">> >>

ACADEMIC_KEYWORDS == <<
    <<"u","n","i","v","e","r","s","i","t","y">>, <<"c","o","l","l","e","g","e">>, <<"s","c","h","o","o","l"," ","o","f">>, <<"d","e","p","a","r","t","m","e","n","t"," ","o","f">>,
    <<"f","a","c","u","l","t","y"," ","o","f">>, <<"a","c","a","d","e","m","y">>, <<"h","o","s","p","i","t","a","l">>, <<"m","e","d","i","c","a","l"," ","c","e","n","t","e","r">>,
    <<"c","l","i","n","i","c">> >>

\* the alternatives of r'\b(inc|llc|corp|ltd|co)\b'
CORPORATE_SUFFIXES == << <<"i","n","c">>, <<"l","l","c">>, <<"c","o","r","p">>, <<"l","t","d">>, <<"c","o">> >>

\* any(keyword in s for keyword in keywords)
AnyKeywordIn(keywords, s) == \E n \in DOMAIN keywords : Contains(s, keywords[n])

\* re.search(r'\b(inc|llc|corp|ltd|co)\b', s) finds a match
CorporateSuffixSearch(s) ==
    \E i \in 1..Len(s) : \E n \in DOMAIN CORPORATE_SUFFIXES :
        /\ OccursAt(s, CORPORATE_SUFFIXES[n], i)
        /\ WordBoundary(s, i - 1)
        /\ WordBoundary(s, i + Len(CORPORATE_SUFFIXES[n]) - 1)

---------------------------------------------------------------------------
(* _is_non_academic_affiliation *)

\* a classifier that tests the industry keywords before the academic ones
classify_industry_first(affiliation) ==
    LET lower_affiliation == Lower(affiliation)
    IN  IF AnyKeywordIn(PHARMA_BIOTECH_KEYWORDS, lower_affiliation) THEN TRUE
        ELSE IF AnyKeywordIn(ACADEMIC_KEYWORDS, lower_affiliation) THEN FALSE
        ELSE CorporateSuffixSearch(lower_affiliation)

\* a classifier that forgets to lower-case its argument
classify_case_sensitive(affiliation) ==
    IF AnyKeywordIn(ACADEMIC_KEYWORDS, affiliation) THEN FALSE
    ELSE IF AnyKeywordIn(PHARMA_BIOTECH_KEYWORDS, affiliation) THEN TRUE
    ELSE CorporateSuffixSearch(affiliation)

_is_non_academic_affiliation(affiliation) ==
    LET lower_affiliation == Lower(affiliation)
    IN  IF AnyKeywordIn(ACADEMIC_KEYWORDS, lower_affiliation) THEN FALSE
        ELSE IF AnyKeywordIn(PHARMA_BIOTECH_KEYWORDS, lower_affiliation) THEN TRUE
        ELSE IF CorporateSuffixSearch(lower_affiliation) THEN TRUE
        ELSE FALSE

---------------------------------------------------------------------------
(* The orchestrator's variables before an invocation *)

OrchIdle ==
    /\ pc = "Idle"
    /\ esearch_calls = << >>
    /\ efetch_calls = << >>
    /\ id_list = << >>
    /\ xml_data = None
    /\ root = << >>
    /\ idx = 1
    /\ filtered_papers = << >>
    /\ result = << >>
    /\ raised = FALSE

PureIdle == arg = << >> /\ ret = << >> /\ phase = "none"

---------------------------------------------------------------------------
(* The classifier applied to affiliation strings *)

MaxWords == 2

\* the words affiliation strings are made of: one per keyword, in the
\* capitalisation affiliations use, and words around the corporate suffixes
AffiliationWords == {
    <<"U","n","i","v","e","r","s","i","t","y">>, <<"C","o","l","l","e","g","e">>, <<"S","c","h","o","o","l"," ","o","f">>, <<"D","e","p","a","r","t","m","e","n","t"," ","o","f">>,
    <<"F","a","c","u","l","t","y"," ","o","f">>, <<"A","c","a","d","e","m","y">>, <<"H","o","s","p","i","t","a","l">>, <<"M","e","d","i","c","a","l"," ","C","e","n","t","e","r">>,
    <<"C","l","i","n","i","c">>,
    <<"P","h","a","r","m","a","c","e","u","t","i","c","a","l">>, <<"B","i","o","t","e","c","h">>, <<"B","i","o","t","e","c","h","n","o","l","o","g","y">>, <<"P","h","a","r","m","a">>,
    <<"I","n","c",".">>, <<"L","L","C">>, <<"C","o","r","p">>, <<"C","o","m","p","a","n","y">>, <<"L","a","b","o","r","a","t","o","r","i","e","s">>,
    <<"L","a","b","s">>, <<"R","e","s","e","a","r","c","h"," ","I","n","s","t","i","t","u","t","e">>, <<"R","&","D">>, <<"D","r","u","g"," ","D","i","s","c","o","v","e","r","y">>,
    <<"C","l","i","n","i","c","a","l"," ","R","e","s","e","a","r","c","h">>, <<"D","i","a","g","n","o","s","t","i","c","s">>, <<"T","h","e","r","a","p","e","u","t","i","c","s">>,
    <<"M","e","d","i","c","i","n","e","s">>, <<"H","e","a","l","t","h","c","a","r","e">>, <<"I","n","s","t","i","t","u","t","e">>, <<"F","o","u","n","d","a","t","i","o","n">>,
    <<"C","e","n","t","e","r">>,
    <<"I","n","c">>, <<"L","t","d">>, <<"C","o">>, <<"C","o","r","p","o","r","a","t","i","o","n">>, <<"C","o","b","a","l","t">>,
    <<"A","c","a","d","e","m","i","c">>, <<"S","m","i","t","h","s","o","n","i","a","n">>, <<"A","g","e","n","c","y">>, <<"b",".","j","o","n","e","s","@","b","i","o","t","e","c","h","c","o","r","p",".","c","o","m">> }

\* the affiliation strings of at most n words, joined by single spaces
AffiliationStrings(n) ==
    {<< >>} \cup
    UNION { { Join(<<" ">>, ws) : ws \in [1..k -> AffiliationWords] } : k \in 1..n }

\* affiliation strings of the repository's tests
TestAffiliations == {
    \* "Academic Research Lab Inc."
    <<"A","c","a","d","e","m","i","c"," ","R","e","s","e","a","r","c","h"," ","L","a","b"," ","I","n","c",".">>,
    \* "Smithsonian Institute"
    <<"S","m","i","t","h","s","o","n","i","a","n"," ","I","n","s","t","i","t","u","t","e">>,
    \* "AbbVie Corporation"
    <<"A","b","b","V","i","e"," ","C","o","r","p","o","r","a","t","i","o","n">>,
    \* "Merck Sharp & Dohme Corp."
    <<"M","e","r","c","k"," ","S","h","a","r","p"," ","&"," ","D","o","h","m","e"," ","C","o","r","p",".">>,
    \* "Independent Consultant"
    <<"I","n","d","e","p","e","n","d","e","n","t"," ","C","o","n","s","u","l","t","a","n","t">> }

InitClassify ==
    /\ arg \in AffiliationStrings(MaxWords) \cup TestAffiliations
    /\ ret = FALSE
    /\ phase = "in"
    /\ query = << >>
    /\ OrchIdle

ApplyClassify ==
    /\ phase = "in"
    /\ ret' = _is_non_academic_affiliation(arg)
    /\ phase' = "out"
    /\ UNCHANGED <<arg, query>>
    /\ UNCHANGED <<pc, esearch_calls, efetch_calls, id_list, xml_data, root,
                   idx, filtered_papers, result, raised>>

NextClassify == ApplyClassify

SpecClassify == InitClassify /\ [][NextClassify]_vars

\* the academic keywords the specification lists
ListedAcademicKeywords == {
    <<"u","n","i","v","e","r","s","i","t","y">>, <<"c","o","l","l","e","g","e">>, <<"s","c","h","o","o","l"," ","o","f">>, <<"d","e","p","a","r","t","m","e","n","t"," ","o","f">>,
    <<"f","a","c","u","l","t","y"," ","o","f">>, <<"a","c","a","d","e","m","y">>, <<"h","o","s","p","i","t","a","l">>, <<"m","e","d","i","c","a","l"," ","c","e","n","t","e","r">>,
    <<"c","l","i","n","i","c">> }

\* the pharma / biotech / corporate keywords
ListedIndustryKeywords == {
    <<"p","h","a","r","m","a","c","e","u","t","i","c","a","l">>, <<"b","i","o","t","e","c","h">>, <<"b","i","o","t","e","c","h","n","o","l","o","g","y">>, <<"p","h","a","r","m","a">>,
    <<"i","n","c",".">>, <<"l","l","c">>, <<"c","o","r","p">>, <<"c","o","m","p","a","n","y">>, <<"l","a","b","o","r","a","t","o","r","i","e","s">>,
    <<"l","a","b","s">>, <<"r","e","s","e","a","r","c","h"," ","i","n","s","t","i","t","u","t","e">>, <<"r","&","d">>, <<"d","r","u","g"," ","d","i","s","c","o","v","e","r","y">>,
    <<"c","l","i","n","i","c","a","l"," ","r","e","s","e","a","r","c","h">>, <<"d","i","a","g","n","o","s","t","i","c","s">>, <<"t","h","e","r","a","p","e","u","t","i","c","s">>,
    <<"m","e","d","i","c","i","n","e","s">>, <<"h","e","a","l","t","h","c","a","r","e">>, <<"i","n","s","t","i","t","u","t","e">>, <<"f","o","u","n","d","a","t","i","o","n">>,
    <<"c","e","n","t","e","r">> }

HasListedAcademic(s) == \E k \in ListedAcademicKeywords : Contains(Lower(s), k)

HasListedIndustry(s) == \E k \in ListedIndustryKeywords : Contains(Lower(s), k)

---------------------------------------------------------------------------
(* _parse_author_affiliation *)

(* An Author node is a record: LastName, ForeName, Initials and            *)
(* CollectiveName hold what findtext returns (None when the node has no    *)
(* such child, else the child's text, which may be empty); Affiliations    *)
(* holds, in document order, the text of every AffiliationInfo/Affiliation *)
(* element under the node (None for an element without text).             *)

\* author_xml.find(".//AffiliationInfo/Affiliation") and its .text
FirstAffiliationText(author_xml) ==
    IF author_xml.Affiliations # << >> THEN author_xml.Affiliations[1] ELSE None

\* an extractor that prefers the initials to the given name
parse_author_initials_first(author_xml) ==
    LET last_name == author_xml.LastName
        fore_name == author_xml.ForeName
        initials == author_xml.Initials
        collective_name == author_xml.CollectiveName
        author_name ==
            IF Truthy(collective_name) THEN collective_name[1]
            ELSE IF Truthy(last_name) /\ Truthy(initials)
                 THEN initials[1] \o <<" ">> \o last_name[1]
            ELSE IF Truthy(last_name) /\ Truthy(fore_name)
                 THEN fore_name[1] \o <<" ">> \o last_name[1]
            ELSE IF Truthy(last_name) THEN last_name[1]
            ELSE << >>
    IN  <<author_name, FirstAffiliationText(author_xml)>>

_parse_author_affiliation(author_xml) ==
    LET last_name == author_xml.LastName
        fore_name == author_xml.ForeName
        initials == author_xml.Initials
        collective_name == author_xml.CollectiveName
        author_name ==
            IF Truthy(collective_name) THEN collective_name[1]
            ELSE IF Truthy(last_name) /\ Truthy(fore_name)
                 THEN fore_name[1] \o <<" ">> \o last_name[1]
            ELSE IF Truthy(last_name) /\ Truthy(initials)
                 THEN initials[1] \o <<" ">> \o last_name[1]
            ELSE IF Truthy(last_name) THEN last_name[1]
            ELSE << >>
        affiliation == FirstAffiliationText(author_xml)
    IN  <<author_name, affiliation>>

---------------------------------------------------------------------------
(* The extractor applied to author nodes *)

MaxAffiliations == 2

\* what findtext can return for a name field with the given text
FieldValues(text) == {None, Some(<< >>), Some(text)}

AffiliationTexts == {None, Some(<<"L","a","b","s">>), Some(<<"C","l","i","n","i","c">>)}

AuthorNodes(n) ==
    [LastName : FieldValues(<<"D","o","e">>),
     ForeName : FieldValues(<<"J","o","h","n">>),
     Initials : FieldValues(<<"J","D">>),
     CollectiveName : FieldValues(<<"S","t","u","d","y"," ","G","r","o","u","p">>),
     Affiliations : UNION {[1..k -> AffiliationTexts] : k \in 0..n}]

InitAuthor ==
    /\ arg \in AuthorNodes(MaxAffiliations)
    /\ ret = << >>
    /\ phase = "in"
    /\ query = << >>
    /\ OrchIdle

ApplyParseAuthor ==
    /\ phase = "in"
    /\ ret' = _parse_author_affiliation(arg)
    /\ phase' = "out"
    /\ UNCHANGED <<arg, query>>
    /\ UNCHANGED <<pc, esearch_calls, efetch_calls, id_list, xml_data, root,
                   idx, filtered_papers, result, raised>>

NextAuthor == ApplyParseAuthor

SpecAuthor == InitAuthor /\ [][NextAuthor]_vars

\* a name field is present when the node has it with non-empty text
Present(field) == field # None /\ Len(field[1]) > 0

\* C9: the composed name is the collective name when present, else
\* "{given} {surname}" when surname and given name are present, else
\* "{initials} {surname}" when surname and initials are present, else the
\* surname when present; the affiliation is the text of the first
\* affiliation element, absent when the node has none.
C9_NamePriority ==
    phase = "out" =>
        /\ Present(arg.CollectiveName) => ret[1] = arg.CollectiveName[1]
        /\ (~Present(arg.CollectiveName) /\ Present(arg.LastName) /\ Present(arg.ForeName))
              => ret[1] = arg.ForeName[1] \o <<" ">> \o arg.LastName[1]
        /\ (~Present(arg.CollectiveName) /\ Present(arg.LastName) /\ ~Present(arg.ForeName)
              /\ Present(arg.Initials))
              => ret[1] = arg.Initials[1] \o <<" ">> \o arg.LastName[1]
        /\ (~Present(arg.CollectiveName) /\ Present(arg.LastName) /\ ~Present(arg.ForeName)
              /\ ~Present(arg.Initials))
              => ret[1] = arg.LastName[1]
        /\ Len(arg.Affiliations) = 0 => ret[2] = None
        /\ Len(arg.Affiliations) > 0 => ret[2] = Head(arg.Affiliations)

\* a node with surname, given name and initials and two affiliation
\* elements has been parsed
C9_Witness ==
    /\ phase = "out"
    /\ ~Present(arg.CollectiveName)
    /\ Present(arg.LastName) /\ Present(arg.ForeName) /\ Present(arg.Initials)
    /\ Len(arg.Affiliations) = 2
    /\ arg.Affiliations[1] # arg.Affiliations[2]
    /\ ret = <<<<"J","o","h","n"," ","D","o","e">>, arg.Affiliations[1]>>

\* C10: a node with at least one non-empty name field gets a non-empty name.
C10_NameNeverEmpty ==
    (/\ phase = "out"
     /\ \/ Present(arg.CollectiveName)
        \/ Present(arg.LastName)
        \/ Present(arg.ForeName)
        \/ Present(arg.Initials))
    => ret[1] # << >>

---------------------------------------------------------------------------
(* The article loop of fetch_and_filter_pubmed_papers *)

\* re.search(r'[\w\.-]+@[\w\.-]+', s): a match starts at i and "@" is at k
EmailMatchAt(s, i, k) ==
    /\ i < k /\ k < Len(s)
    /\ s[k] = "@"
    /\ \A j \in i..(k - 1) : IsEmailChar(s[j])
    /\ IsEmailChar(s[k + 1])

\* re.search(r'[\w\.-]+@[\w\.-]+', s): None, or the leftmost match, both
\* repetitions taken as far as they go
EmailSearch(s) ==
    LET starts == {i \in 1..Len(s) : \E k \in 1..Len(s) : EmailMatchAt(s, i, k)}
    IN  IF starts = {} THEN None
        ELSE LET i == CHOOSE x \in starts : \A y \in starts : x <= y
                 k == CHOOSE x \in 1..Len(s) : EmailMatchAt(s, i, x)
                 e == CHOOSE x \in (k + 1)..Len(s) :
                          /\ \A j \in (k + 1)..x : IsEmailChar(s[j])
                          /\ (x = Len(s) \/ ~IsEmailChar(s[x + 1]))
             IN  Some(SubSeq(s, i, e))

\* the state of the author loop before its first iteration
AuthorLoopStart ==
    [non_academic_authors |-> << >>,
     company_affiliations |-> << >>,
     corresponding_author_email |-> None,
     has_non_academic_affiliation |-> FALSE]

\* lines 165-170: the author is parsed and, if its affiliation classifies
\* as non-academic, appended to both lists
ClassifyAuthor(st, author_elem) ==
    LET parsed == _parse_author_affiliation(author_elem)
        author_name == parsed[1]
        affiliation == parsed[2]
    IN  IF Truthy(affiliation) /\ _is_non_academic_affiliation(affiliation[1])
        THEN [st EXCEPT !.non_academic_authors = Append(@, author_name),
                        !.company_affiliations = Append(@, affiliation[1]),
                        !.has_non_academic_affiliation = TRUE]
        ELSE st

\* lines 181-184: the email found in this author's affiliation, or None
AuthorEmail(author_elem) ==
    LET affiliation == _parse_author_affiliation(author_elem)[2]
    IN  IF Truthy(affiliation) THEN EmailSearch(affiliation[1]) ELSE None

\* an author loop that keeps scanning after an email and lets a later
\* email replace the one it has
RECURSIVE author_loop_last_email(_, _)
author_loop_last_email(st, authors) ==
    IF authors = << >> THEN st
    ELSE LET st1 == ClassifyAuthor(st, Head(authors))
             email_match == AuthorEmail(Head(authors))
         IN  IF email_match # None
             THEN author_loop_last_email(
                      [st1 EXCEPT !.corresponding_author_email = email_match],
                      Tail(authors))
             ELSE author_loop_last_email(st1, Tail(authors))

\* lines 164-188: for author_elem in article_elem.xpath(".//AuthorList/Author"),
\* left by the break at the first author whose affiliation holds an email
RECURSIVE AuthorLoop(_, _)
AuthorLoop(st, authors) ==
    IF authors = << >> THEN st
    ELSE LET st1 == ClassifyAuthor(st, Head(authors))
             email_match == AuthorEmail(Head(authors))
         IN  IF email_match # None
             THEN [st1 EXCEPT !.corresponding_author_email = email_match]
             ELSE AuthorLoop(st1, Tail(authors))

\* a date that appends the day whenever it is present
publication_date_day_without_month(pub_date_elem) ==
    LET year == pub_date_elem.Year
        month == pub_date_elem.Month
        day == pub_date_elem.Day
    IN  IF Truthy(year)
        THEN (year[1] \o (IF Truthy(month) THEN <<" ">> \o month[1] ELSE << >>))
                 \o (IF Truthy(day) THEN <<" ">> \o day[1] ELSE << >>)
        ELSE << >>

\* lines 145-155: the publication date of a PubDate node
PublicationDate(pub_date_elem) ==
    LET year == pub_date_elem.Year
        month == pub_date_elem.Month
        day == pub_date_elem.Day
    IN  IF Truthy(year)
        THEN IF Truthy(month)
             THEN IF Truthy(day)
                  THEN year[1] \o <<" ">> \o month[1] \o <<" ">> \o day[1]
                  ELSE year[1] \o <<" ">> \o month[1]
             ELSE year[1]
        ELSE << >>

(* An article node is a record: PMID, ArticleTitle and PubDate hold the    *)
(* list an xpath query returns (the texts of the PMID and ArticleTitle     *)
(* elements, the PubDate nodes), Authors the Author nodes in document      *)
(* order.                                                                  *)

\* lines 140-144: indexing an empty xpath result with [0] raises IndexError
ArticleRaises(article_elem) ==
    \/ article_elem.PMID = << >>
    \/ article_elem.ArticleTitle = << >>
    \/ article_elem.PubDate = << >>

\* lines 190-198: the row of an article that has a non-academic author
ArticleRow(article_elem) ==
    LET st == AuthorLoop(AuthorLoopStart, article_elem.Authors)
    IN  [PubmedID |-> article_elem.PMID[1],
         Title |-> article_elem.ArticleTitle[1],
         PublicationDate |-> PublicationDate(article_elem.PubDate[1]),
         NonAcademicAuthors |-> Join(<<";"," ">>, st.non_academic_authors),
         CompanyAffiliations |-> Join(<<";"," ">>, st.company_affiliations),
         CorrespondingAuthorEmail |->
             IF Truthy(st.corresponding_author_email)
             THEN st.corresponding_author_email[1] ELSE <<"N","/","A">>]

\* line 190: the article is emitted
ArticleEmitted(article_elem) ==
    AuthorLoop(AuthorLoopStart, article_elem.Authors).has_non_academic_affiliation

---------------------------------------------------------------------------
(* The author loop applied to articles *)

MaxAuthors == 2

\* the name fields of the authors: given name and surname, a collective
\* name, a given name alone, no name field at all
AuthorNames == {
    [LastName |-> Some(<<"D","o","e">>), ForeName |-> Some(<<"J">>), Initials |-> None,
     CollectiveName |-> None],
    [LastName |-> None, ForeName |-> None, Initials |-> None,
     CollectiveName |-> Some(<<"G","r","o","u","p">>)],
    [LastName |-> None, ForeName |-> Some(<<"J">>), Initials |-> None,
     CollectiveName |-> None],
    [LastName |-> None, ForeName |-> None, Initials |-> None,
     CollectiveName |-> None] }

\* the Affiliation elements of the authors: none, or one that is academic,
\* industrial or neither, with and without email addresses
AuthorAffiliations == {
    << >>,
    << Some(<<"C","l","i","n","i","c">>) >>,
    << Some(<<"C","l","i","n","i","c"," ","a","@","b">>) >>,
    << Some(<<"L","a","b","s">>) >>,
    << Some(<<"L","a","b","s"," ","c","@","d"," ","g","@","h">>) >>,
    << Some(<<"H","o","m","e">>) >>,
    << Some(<<"H","o","m","e"," ","e","@","f">>) >> }

AuthorPool ==
    { [LastName |-> n.LastName, ForeName |-> n.ForeName, Initials |-> n.Initials,
       CollectiveName |-> n.CollectiveName, Affiliations |-> a] :
          n \in AuthorNames, a \in AuthorAffiliations }

APubDate ==
    [Year |-> Some(<<"2","0","2","4">>), Month |-> Some(<<"F","e","b">>), Day |-> Some(<<"2","0">>)]

Article(pmid, authors) ==
    [PMID |-> pmid, ArticleTitle |-> <<"A title">>, PubDate |-> <<APubDate>>,
     Authors |-> authors]

InitRecord ==
    /\ arg \in { Article(<<"87654321">>, authors) :
                    authors \in UNION {[1..k -> AuthorPool] : k \in 0..MaxAuthors} }
    /\ ret = << >>
    /\ phase = "in"
    /\ query = << >>
    /\ OrchIdle

\* one iteration of the article loop, lines 140-198
ApplyArticle ==
    /\ phase = "in"
    /\ ret' = [loop |-> AuthorLoop(AuthorLoopStart, arg.Authors),
               emitted |-> ArticleEmitted(arg),
               row |-> IF ArticleEmitted(arg) THEN Some(ArticleRow(arg)) ELSE None]
    /\ phase' = "out"
    /\ UNCHANGED <<arg, query>>
    /\ UNCHANGED <<pc, esearch_calls, efetch_calls, id_list, xml_data, root,
                   idx, filtered_papers, result, raised>>

NextRecord == ApplyArticle

SpecRecord == InitRecord /\ [][NextRecord]_vars

\* the affiliation of an author node: the text of its first Affiliation
\* element, when it has one with text
AffiliationOf(author) ==
    IF author.Affiliations # << >> /\ author.Affiliations[1] # None
    THEN author.Affiliations[1][1] ELSE << >>

HasAffiliation(author) == AffiliationOf(author) # << >>

IsNonAcademicAuthor(author) ==
    HasAffiliation(author) /\ _is_non_academic_affiliation(AffiliationOf(author))

HasEmail(author) == HasAffiliation(author) /\ EmailSearch(AffiliationOf(author)) # None

\* the authors of a list whose affiliation is present and classifies as
\* non-academic, in document order
RECURSIVE NonAcademicAmong(_)
NonAcademicAmong(authors) ==
    IF authors = << >> THEN << >>
    ELSE IF IsNonAcademicAuthor(Head(authors))
         THEN <<Head(authors)>> \o NonAcademicAmong(Tail(authors))
    ELSE NonAcademicAmong(Tail(authors))

\* the authors of a list whose affiliation holds an email, in document order
RECURSIVE WithEmailAmong(_)
WithEmailAmong(authors) ==
    IF authors = << >> THEN << >>
    ELSE IF HasEmail(Head(authors))
         THEN <<Head(authors)>> \o WithEmailAmong(Tail(authors))
    ELSE WithEmailAmong(Tail(authors))

NameOf(author) == _parse_author_affiliation(author)[1]

\* C4: the non-academic author list holds the names of all the authors
\* whose affiliation is present and classifies as non-academic, in document
\* order, and the company-affiliation list their affiliations, also when an
\* earlier author's affiliation holds an email address.
C4_AllNonAcademicAuthorsListed ==
    phase = "out" =>
        LET listed == NonAcademicAmong(arg.Authors)
        IN  /\ ret.loop.non_academic_authors = [i \in DOMAIN listed |-> NameOf(listed[i])]
            /\ ret.loop.company_affiliations = [i \in DOMAIN listed |-> AffiliationOf(listed[i])]

\* C5: the email of an emitted row is the leftmost email in the affiliation
\* of the first author whose affiliation holds one, and "N/A" exactly when
\* no author's affiliation holds one.
C5_FirstEmailWins ==
    (phase = "out" /\ ret.emitted) =>
        LET with_email == WithEmailAmong(arg.Authors)
            email == ret.row[1].CorrespondingAuthorEmail
        IN  /\ with_email # << >> => email = EmailSearch(AffiliationOf(with_email[1]))[1]
            /\ email = <<"N","/","A">> <=> with_email = << >>

\* a row was emitted for an article whose first author with an email has
\* two of them and is followed by an author with another email
C5_Witness ==
    /\ phase = "out" /\ ret.emitted
    /\ Len(arg.Authors) = 2
    /\ AffiliationOf(arg.Authors[1]) = <<"L","a","b","s"," ","c","@","d"," ","g","@","h">>
    /\ AffiliationOf(arg.Authors[2]) = <<"H","o","m","e"," ","e","@","f">>
    /\ ret.row[1].CorrespondingAuthorEmail = <<"c","@","d">>

---------------------------------------------------------------------------
(* fetch_and_filter_pubmed_papers: search, fetch, parse, aggregate *)

(* The debug flag only prints and is left out.  A document is a record:   *)
(* well_formed tells whether etree.fromstring accepts it, articles holds  *)
(* its PubmedArticle nodes in document order.                             *)

MaxIds == 2

MaxRecords == 2

Queries == {"cancer", "crispr AND pharma"}

Pmids == {"12345678", "87654321"}

IdLists == UNION {[1..k -> Pmids] : k \in 0..MaxIds}

NamedAuthor(surname, affiliations) ==
    [LastName |-> Some(surname), ForeName |-> None, Initials |-> None,
     CollectiveName |-> None, Affiliations |-> affiliations]

\* the articles a fetch response is made of: an academic author; an
\* industry author with emails before an academic one; an industry author
\* without email; an academic author with an email before an industry
\* author; an article without PMID
ArticlePool == {
    Article(<<"12345678">>, << NamedAuthor(<<"S","m","i","t","h">>, <<Some(<<"C","l","i","n","i","c"," ","a","@","b">>)>>) >>),
    Article(<<"87654321">>, << NamedAuthor(<<"J","o","n","e","s">>, <<Some(<<"L","a","b","s"," ","c","@","d"," ","g","@","h">>)>>),
                               NamedAuthor(<<"W","i","l","l","i","a","m","s">>, <<Some(<<"C","l","i","n","i","c">>)>>) >>),
    Article(<<"11223344">>, << NamedAuthor(<<"B","r","o","w","n">>, <<Some(<<"L","a","b","s">>)>>) >>),
    Article(<<"99887766">>, << NamedAuthor(<<"C","l","a","r","k">>, <<Some(<<"C","l","i","n","i","c"," ","a","@","b">>)>>),
                               NamedAuthor(<<"E","v","a","n","s">>, <<Some(<<"L","a","b","s">>)>>) >>),
    Article(<< >>, << NamedAuthor(<<"B","r","o","w","n">>, <<Some(<<"L","a","b","s">>)>>) >>) }

Documents ==
    {[well_formed |-> FALSE, articles |-> << >>]} \cup
    {[well_formed |-> TRUE, articles |-> as] :
        as \in UNION {[1..k -> ArticlePool] : k \in 0..MaxRecords}}

\* the exceptions the collaborators, the parser and the extraction raise
Exceptions == {"RuntimeError", "HTTPError", "XMLSyntaxError", "IndexError"}

\* line 206, except Exception: every one of them is an Exception
HandlerCatches(exc) == exc \in Exceptions

\* an except clause that returns the rows built so far
except_returns_partial(papers) == papers

\* line 209: return []
ExceptReturn(papers) == << >>

\* lines 206-209: an exception raised inside the try block
Raise(exc) ==
    /\ pc' = "Failed"
    /\ raised' = ~HandlerCatches(exc)
    /\ result' = IF HandlerCatches(exc) THEN ExceptReturn(filtered_papers) ELSE result

Init ==
    /\ PureIdle
    /\ query \in Queries
    /\ OrchIdle

\* line 115: Entrez.esearch is called
CallEsearch ==
    /\ pc = "Idle"
    /\ pc' = "Searching"
    /\ esearch_calls' = Append(esearch_calls,
                               [db |-> "pubmed", term |-> query, retmax |-> "100"])
    /\ UNCHANGED <<query, efetch_calls, id_list, xml_data, root, idx,
                   filtered_papers, result, raised>>
    /\ UNCHANGED pureVars

\* a search step that, on an exception, calls the search collaborator again
esearch_raises_retried(exc) ==
    /\ pc = "Searching"
    /\ IF Len(esearch_calls) < 2
       THEN pc' = "Idle" /\ UNCHANGED <<result, raised>>
       ELSE Raise(exc)
    /\ UNCHANGED <<query, esearch_calls, efetch_calls, id_list, xml_data, root,
                   idx, filtered_papers>>
    /\ UNCHANGED pureVars

\* lines 115-117: esearch, Entrez.read or handle.close raises
EsearchRaises(exc) ==
    /\ pc = "Searching"
    /\ Raise(exc)
    /\ UNCHANGED <<query, esearch_calls, efetch_calls, id_list, xml_data, root,
                   idx, filtered_papers>>
    /\ UNCHANGED pureVars

\* a search step that fetches whatever the identifier list holds
esearch_returns_unchecked(ids) ==
    /\ pc = "Searching"
    /\ id_list' = ids
    /\ pc' = "Fetching"
    /\ efetch_calls' = Append(efetch_calls,
                              [db |-> "pubmed", id |-> ids,
                               rettype |-> "medline", retmode |-> "xml"])
    /\ UNCHANGED <<result, query, esearch_calls, xml_data, root, idx,
                   filtered_papers, raised>>
    /\ UNCHANGED pureVars

\* lines 116-129: the search returns ids; an empty list is returned as an
\* empty result, any other list is handed to Entrez.efetch
EsearchReturns(ids) ==
    /\ pc = "Searching"
    /\ id_list' = ids
    /\ IF ids = << >>
       THEN /\ pc' = "NoResults"
            /\ result' = << >>
            /\ UNCHANGED efetch_calls
       ELSE /\ pc' = "Fetching"
            /\ efetch_calls' = Append(efetch_calls,
                                      [db |-> "pubmed", id |-> ids,
                                       rettype |-> "medline", retmode |-> "xml"])
            /\ UNCHANGED result
    /\ UNCHANGED <<query, esearch_calls, xml_data, root, idx, filtered_papers, raised>>
    /\ UNCHANGED pureVars

\* lines 129-131: efetch, handle.read or handle.close raises
EfetchRaises(exc) ==
    /\ pc = "Fetching"
    /\ Raise(exc)
    /\ UNCHANGED <<query, esearch_calls, efetch_calls, id_list, xml_data, root,
                   idx, filtered_papers>>
    /\ UNCHANGED pureVars

\* lines 129-131: the fetch returns a document
EfetchReturns(doc) ==
    /\ pc = "Fetching"
    /\ xml_data' = Some(doc)
    /\ pc' = "Parsing"
    /\ UNCHANGED <<query, esearch_calls, efetch_calls, id_list, root, idx,
                   filtered_papers, result, raised>>
    /\ UNCHANGED pureVars

\* lines 134-139: etree.fromstring parses the document or raises
ParseDocument ==
    /\ pc = "Parsing"
    /\ IF xml_data[1].well_formed
       THEN /\ root' = xml_data[1].articles
            /\ idx' = 1
            /\ filtered_papers' = << >>
            /\ pc' = "Aggregating"
            /\ UNCHANGED <<result, raised>>
       ELSE /\ Raise("XMLSyntaxError")
            /\ UNCHANGED <<root, idx, filtered_papers>>
    /\ UNCHANGED <<query, esearch_calls, efetch_calls, id_list, xml_data>>
    /\ UNCHANGED pureVars

\* lines 140-198 for every article a document can hold, computed once:
\* whether the extraction raises, whether the article is emitted, its row
ArticleOutcome ==
    [a \in ArticlePool |->
        IF ArticleRaises(a)
        THEN [raises |-> TRUE, emitted |-> FALSE, row |-> None]
        ELSE [raises |-> FALSE, emitted |-> ArticleEmitted(a),
              row |-> Some(ArticleRow(a))]]

\* lines 139-200: one iteration of the article loop
AggregateArticle ==
    /\ pc = "Aggregating"
    /\ idx <= Len(root)
    /\ IF ArticleOutcome[root[idx]].raises
       THEN /\ Raise("IndexError")
            /\ UNCHANGED <<idx, filtered_papers>>
       ELSE /\ filtered_papers' =
                   IF ArticleOutcome[root[idx]].emitted
                   THEN Append(filtered_papers, ArticleOutcome[root[idx]].row[1])
                   ELSE filtered_papers
            /\ idx' = idx + 1
            /\ UNCHANGED <<pc, result, raised>>
    /\ UNCHANGED <<query, esearch_calls, efetch_calls, id_list, xml_data, root>>
    /\ UNCHANGED pureVars

\* line 204: return filtered_papers
ReturnPapers ==
    /\ pc = "Aggregating"
    /\ idx > Len(root)
    /\ pc' = "Done"
    /\ result' = filtered_papers
    /\ UNCHANGED <<query, esearch_calls, efetch_calls, id_list, xml_data, root,
                   idx, filtered_papers, raised>>
    /\ UNCHANGED pureVars

Next ==
    \/ CallEsearch
    \/ \E exc \in {"RuntimeError", "HTTPError"} : EsearchRaises(exc)
    \/ \E ids \in IdLists : EsearchReturns(ids)
    \/ \E exc \in {"RuntimeError", "HTTPError"} : EfetchRaises(exc)
    \/ \E doc \in Documents : EfetchReturns(doc)
    \/ ParseDocument
    \/ AggregateArticle
    \/ ReturnPapers

Spec == Init /\ [][Next]_vars

---------------------------------------------------------------------------
(* The claims about the pipeline *)

\* the articles of a list with at least one author whose affiliation is
\* present and classifies as non-academic, in document order
RECURSIVE ArticlesWithNonAcademicAuthor(_)
ArticlesWithNonAcademicAuthor(articles) ==
    IF articles = << >> THEN << >>
    ELSE IF NonAcademicAmong(Head(articles).Authors) # << >>
         THEN <<Head(articles)>> \o ArticlesWithNonAcademicAuthor(Tail(articles))
    ELSE ArticlesWithNonAcademicAuthor(Tail(articles))

\* C3: when search, fetch and parse succeed, the rows returned are those of
\* exactly the fetched articles that have an author whose present
\* affiliation classifies as non-academic, in the order of the response.
C3_RowsAreTheNonAcademicArticles ==
    pc = "Done" =>
        LET expected == ArticlesWithNonAcademicAuthor(root)
        IN  [i \in DOMAIN result |-> result[i].PubmedID]
              = [i \in DOMAIN expected |-> expected[i].PMID[1]]

\* C6: after an exception at any stage no exception reaches the caller and
\* the result is the empty list, whatever rows were built before.
C6_FailureGivesEmptyResult ==
    /\ raised = FALSE
    /\ pc = "Failed" => result = << >>

\* the extraction of an article raised after a row had been built
C6_Witness ==
    /\ pc = "Failed"
    /\ filtered_papers # << >>
    /\ idx = 2
    /\ ArticleRaises(root[idx])
    /\ result = << >>

\* C7: when the search returns no identifier the empty sequence is returned
\* as a normal result and the fetch collaborator is not invoked.
C7_NoResultsNoFetch ==
    (pc \notin {"Idle", "Searching"} /\ id_list = << >>) =>
        /\ efetch_calls = << >>
        /\ result = << >>
        /\ raised = FALSE
        /\ pc \in {"NoResults", "Failed"}

\* the search returned an empty identifier list
C7_Witness ==
    /\ pc = "NoResults"
    /\ Len(esearch_calls) = 1
    /\ id_list = << >>
    /\ efetch_calls = << >>
    /\ result = << >>

\* C8: the search request carries the caller's query, database "pubmed" and
\* a ceiling of "10000"; the fetch request carries the identifier list the
\* search returned.
C8_RequestArguments ==
    /\ \A i \in DOMAIN esearch_calls :
          esearch_calls[i] = [db |-> "pubmed", term |-> query, retmax |-> "10000"]
    /\ \A i \in DOMAIN efetch_calls : efetch_calls[i].id = id_list

---------------------------------------------------------------------------
(* The publication date of PubDate nodes *)

\* what findtext returns for Year, Month and Day: None, "" or a text
PubDateNodes ==
    [Year : {None, Some(<< >>), Some(<<"2","0","2","3">>), Some(<<"2","0","2","4">>)},
     Month : {None, Some(<< >>), Some(<<"J","a","n">>), Some(<<"F","e","b">>)},
     Day : {None, Some(<< >>), Some(<<"1","5">>), Some(<<"0","1">>)}]

InitDate ==
    /\ arg \in PubDateNodes
    /\ ret = << >>
    /\ phase = "in"
    /\ query = << >>
    /\ OrchIdle

ApplyDate ==
    /\ phase = "in"
    /\ ret' = PublicationDate(arg)
    /\ phase' = "out"
    /\ UNCHANGED <<arg, query>>
    /\ UNCHANGED <<pc, esearch_calls, efetch_calls, id_list, xml_data, root,
                   idx, filtered_papers, result, raised>>

NextDate == ApplyDate

SpecDate == InitDate /\ [][NextDate]_vars

\* C11: the date is the space-joined longest prefix of (year, month, day)
\* whose parts are all present: no day without a month, nothing without a
\* year.
C11_DateIsLongestPrefix ==
    phase = "out" =>
        /\ ~Present(arg.Year) => ret = << >>
        /\ (Present(arg.Year) /\ ~Present(arg.Month)) => ret = arg.Year[1]
        /\ (Present(arg.Year) /\ Present(arg.Month) /\ ~Present(arg.Day))
              => ret = arg.Year[1] \o <<" ">> \o arg.Month[1]
        /\ (Present(arg.Year) /\ Present(arg.Month) /\ Present(arg.Day))
              => ret = Join(<<" ">>, <<arg.Year[1], arg.Month[1], arg.Day[1]>>)

\* a node with a year and a day and no month got the year alone
C11_Witness ==
    /\ phase = "out"
    /\ arg.Year = Some(<<"2","0","2","3">>) /\ arg.Month = None /\ arg.Day = Some(<<"1","5">>)
    /\ ret = <<"2","0","2","3">>

---------------------------------------------------------------------------
(* save_papers_to_csv *)

(* The function is applied to a list of rows and a file system: fs.kind    *)
(* tells whether open(filename, "w") succeeds ("writable"), raises         *)
(* ("open_fails") or succeeds with a later write raising ("write_fails",   *)
(* after fs.after lines reached the file); fs.exc is the exception.  The   *)
(* result holds what the call left behind: whether the file was opened,    *)
(* the lines of the file (None when it does not exist), the messages       *)
(* printed and whether an exception reached the caller.                    *)

\* lines 225-232
fieldnames == <<"PubmedID", "Title", "Publication Date", "Non-academic Author(s)",
                "Company Affiliation(s)", "Corresponding Author Email">>

\* csv.DictWriter.writerow: the values of a row in the order of fieldnames
CsvLine(paper) ==
    <<paper.PubmedID, paper.Title, paper.PublicationDate, paper.NonAcademicAuthors,
      paper.CompanyAffiliations, paper.CorrespondingAuthorEmail>>

\* writer.writeheader() then writer.writerows(papers)
CsvLines(papers) == <<fieldnames>> \o [i \in DOMAIN papers |-> CsvLine(papers[i])]

\* the exceptions open and write raise: IOError is OSError, the others its subclasses
IOErrors == {"OSError", "PermissionError", "FileNotFoundError"}

\* line 240: except IOError
IOHandlerCatches(exc) == exc \in IOErrors

\* lines 234-241: the try block
WriteCsv(papers, fs) ==
    IF fs.kind = "writable"
    THEN [opened |-> TRUE, file |-> Some(CsvLines(papers)),
          stdout |-> <<"Successfully saved">>, raised |-> FALSE]
    ELSE [opened |-> fs.kind = "write_fails",
          file |-> IF fs.kind = "write_fails"
                   THEN Some(SubSeq(CsvLines(papers), 1, fs.after)) ELSE None,
          stdout |-> IF IOHandlerCatches(fs.exc)
                     THEN <<"Error saving to CSV file">> ELSE << >>,
          raised |-> ~IOHandlerCatches(fs.exc)]

\* a sink without the test of line 220
save_papers_without_empty_test(papers, fs) == WriteCsv(papers, fs)

save_papers_to_csv(papers, fs) ==
    IF papers = << >>
    THEN [opened |-> FALSE, file |-> None, stdout |-> <<"No papers to save.">>,
          raised |-> FALSE]
    ELSE WriteCsv(papers, fs)

MaxPapers == 2

\* the rows handed to the sink
PaperPool == {
    [PubmedID |-> "1", Title |-> "Paper One", PublicationDate |-> "2023 Jan",
     NonAcademicAuthors |-> "A. Author", CompanyAffiliations |-> "Company A",
     CorrespondingAuthorEmail |-> "a.author@company.com"],
    [PubmedID |-> "2", Title |-> "Paper Two", PublicationDate |-> "2024 Feb 10",
     NonAcademicAuthors |-> "B. Author", CompanyAffiliations |-> "Company B",
     CorrespondingAuthorEmail |-> "N/A"],
    [PubmedID |-> "1", Title |-> "Test", PublicationDate |-> "2023",
     NonAcademicAuthors |-> "A", CompanyAffiliations |-> "C",
     CorrespondingAuthorEmail |-> "E"] }

PaperLists(n) == UNION {[1..k -> PaperPool] : k \in 0..n}

FileSystems(papers) ==
    {[kind |-> "writable", exc |-> "none", after |-> 0]}
    \cup {[kind |-> "open_fails", exc |-> e, after |-> 0] :
             e \in {"PermissionError", "FileNotFoundError"}}
    \cup {[kind |-> "write_fails", exc |-> "OSError", after |-> j] :
             j \in 0..Len(papers)}

InitCsv ==
    /\ \E papers \in PaperLists(MaxPapers) : \E fs \in FileSystems(papers) :
          arg = [papers |-> papers, fs |-> fs]
    /\ ret = << >>
    /\ phase = "in"
    /\ query = << >>
    /\ OrchIdle

ApplySave ==
    /\ phase = "in"
    /\ ret' = save_papers_to_csv(arg.papers, arg.fs)
    /\ phase' = "out"
    /\ UNCHANGED <<arg, query>>
    /\ UNCHANGED <<pc, esearch_calls, efetch_calls, id_list, xml_data, root,
                   idx, filtered_papers, result, raised>>

NextCsv == ApplySave

SpecCsv == InitCsv /\ [][NextCsv]_vars

\* the six-column header of the report
ReportHeader == <<"PubmedID", "Title", "Publication Date", "Non-academic Author(s)",
                  "Company Affiliation(s)", "Corresponding Author Email">>

\* C12: no exception reaches the caller; with zero rows the notice is
\* printed and the file is neither opened nor created; with rows and an
\* I/O error an error message is printed; with rows and a writable path
\* the file holds the header and one line per paper, in input order; a
\* file exists only when there are rows and open succeeded.
C12_SinkNeverRaises ==
    phase = "out" =>
        /\ ret.raised = FALSE
        /\ arg.papers = << >> =>
              /\ ret.opened = FALSE /\ ret.file = None
              /\ ret.stdout = <<"No papers to save.">>
        /\ (arg.papers # << >> /\ arg.fs.kind # "writable") =>
              ret.stdout = <<"Error saving to CSV file">>
        /\ (arg.papers # << >> /\ arg.fs.kind = "writable") =>
              /\ ret.file # None
              /\ Len(ret.file[1]) = Len(arg.papers) + 1
              /\ ret.file[1][1] = ReportHeader
              /\ \A i \in DOMAIN arg.papers :
                    /\ Len(ret.file[1][i + 1]) = 6
                    /\ ret.file[1][i + 1][1] = arg.papers[i].PubmedID
                    /\ ret.file[1][i + 1][2] = arg.papers[i].Title
                    /\ ret.file[1][i + 1][3] = arg.papers[i].PublicationDate
                    /\ ret.file[1][i + 1][4] = arg.papers[i].NonAcademicAuthors
                    /\ ret.file[1][i + 1][5] = arg.papers[i].CompanyAffiliations
                    /\ ret.file[1][i + 1][6] = arg.papers[i].CorrespondingAuthorEmail
        /\ (ret.opened \/ ret.file # None) =>
              (arg.papers # << >> /\ arg.fs.kind # "open_fails")

\* two different papers were handed over and the write failed after the
\* header and the first line
C12_Witness ==
    /\ phase = "out"
    /\ Len(arg.papers) = 2 /\ arg.papers[1] # arg.papers[2]
    /\ arg.fs.kind = "write_fails" /\ arg.fs.after = 2
    /\ ret.raised = FALSE
    /\ ret.stdout = <<"Error saving to CSV file">>

---------------------------------------------------------------------------
(* Authors without a name in the output lists *)

\* C13: an author whose composed name is empty is skipped: in an emitted
\* row no entry of the non-academic author list is the empty string, and
\* no company affiliation belongs to an author with an empty name (the
\* two lists are parallel: entry i of one belongs to entry i of the other).
C13_EmptyNamesSkipped ==
    (phase = "out" /\ ret.emitted) =>
        /\ Len(ret.loop.company_affiliations) = Len(ret.loop.non_academic_authors)
        /\ \A i \in DOMAIN ret.loop.non_academic_authors :
              ret.loop.non_academic_authors[i] # << >>

---------------------------------------------------------------------------
(* The classifier on "academic", "institute" and "Corporation" *)

\* some keyword of the industry list or a standalone corporate suffix
HasCorporateMarker(s) == HasListedIndustry(s) \/ CorporateSuffixSearch(Lower(s))

\* C14: an affiliation that contains "academic" together with a corporate
\* marker and no listed academic keyword, such as "Academic Research Lab
\* Inc.", is classified academic (false).
C14_AcademicWordOverrides ==
    (/\ phase = "out"
     /\ Contains(Lower(arg), <<"a","c","a","d","e","m","i","c">>)
     /\ ~HasListedAcademic(arg)
     /\ HasCorporateMarker(arg))
    => ret = FALSE

\* the industry keywords an affiliation contains
MatchedIndustryKeywords(s) == {k \in ListedIndustryKeywords : Contains(Lower(s), k)}

\* C15: an affiliation whose only keyword match is "institute" and that
\* contains no academic keyword, such as "Smithsonian Institute", is
\* classified academic (false).
C15_InstituteAloneIsAcademic ==
    (/\ phase = "out"
     /\ MatchedIndustryKeywords(arg) = {<<"i","n","s","t","i","t","u","t","e">>}
     /\ ~HasListedAcademic(arg))
    => ret = FALSE

---------------------------------------------------------------------------
(* The step of _is_non_academic_affiliation that decides *)

\* k occurs in s as a whole word
ContainsWord(s, k) ==
    \E i \in 1..Len(s) :
        OccursAt(s, k, i) /\ WordBoundary(s, i - 1) /\ WordBoundary(s, i + Len(k) - 1)

\* a classifier whose keyword-list step matches whole words only
classify_step_whole_words(affiliation) ==
    LET lower_affiliation == Lower(affiliation)
    IN  IF AnyKeywordIn(ACADEMIC_KEYWORDS, lower_affiliation) THEN "academic"
        ELSE IF \E n \in DOMAIN PHARMA_BIOTECH_KEYWORDS :
                    ContainsWord(lower_affiliation, PHARMA_BIOTECH_KEYWORDS[n])
             THEN "keyword"
        ELSE IF CorporateSuffixSearch(lower_affiliation) THEN "suffix"
        ELSE "none"

\* lines 41-60: the return statement that is reached: line 50 ("academic"),
\* line 54 ("keyword"), line 58 ("suffix") or line 60 ("none")
ClassifyStep(affiliation) ==
    LET lower_affiliation == Lower(affiliation)
    IN  IF AnyKeywordIn(ACADEMIC_KEYWORDS, lower_affiliation) THEN "academic"
        ELSE IF AnyKeywordIn(PHARMA_BIOTECH_KEYWORDS, lower_affiliation) THEN "keyword"
        ELSE IF CorporateSuffixSearch(lower_affiliation) THEN "suffix"
        ELSE "none"

\* lines 50, 54, 58, 60: the value each return statement returns
StepValue(step) == step \in {"keyword", "suffix"}

ApplyClassifySteps ==
    /\ phase = "in"
    /\ ret' = [step |-> ClassifyStep(arg), value |-> StepValue(ClassifyStep(arg))]
    /\ phase' = "out"
    /\ UNCHANGED <<arg, query>>
    /\ UNCHANGED <<pc, esearch_calls, efetch_calls, id_list, xml_data, root,
                   idx, filtered_papers, result, raised>>

NextClassifySteps == ApplyClassifySteps

SpecClassifySteps == InitClassify /\ [][NextClassifySteps]_vars

\* "corp" occurs in the affiliation, and only inside longer words
CorpOnlyInsideWords(s) ==
    /\ Contains(Lower(s), <<"c","o","r","p">>)
    /\ ~ContainsWord(Lower(s), <<"c","o","r","p">>)

\* the affiliations the claim is about: "corp" only inside longer words, no
\* academic keyword, no other industry keyword
CorpInsideWordCase(s) ==
    /\ CorpOnlyInsideWords(s)
    /\ ~HasListedAcademic(s)
    /\ MatchedIndustryKeywords(s) \subseteq {<<"c","o","r","p">>}

\* C16 as stated: in that case the keyword-list step does not match and
\* true is returned by the whole-word corporate-suffix step.
C16_OnlyViaSuffixStep ==
    (phase = "out" /\ CorpInsideWordCase(arg)) =>
        (ret.value = TRUE /\ ret.step = "suffix")

\* C16 as amended: in that case the keyword-list step matches, because it
\* tests substrings, and true is returned by that step.
C16_ViaKeywordStep ==
    (phase = "out" /\ CorpInsideWordCase(arg)) =>
        (ret.value = TRUE /\ ret.step = "keyword")

\* "AbbVie Corporation" has been classified by the keyword-list step
C16_Witness ==
    /\ phase = "out"
    /\ arg = <<"A","b","b","V","i","e"," ","C","o","r","p","o","r","a","t","i","o","n">>
    /\ CorpInsideWordCase(arg)
    /\ ~CorporateSuffixSearch(Lower(arg))
    /\ ret = [step |-> "keyword", value |-> TRUE]

---------------------------------------------------------------------------
(* The life of one invocation *)

(* The function runs on one thread and every step either returns or       *)
(* raises, so an invocation that can take a step takes it.                *)
FairSpec == Spec /\ WF_vars(Next)

Terminal == {"NoResults", "Done", "Failed"}

\* the transitions of the state machine Idle, Searching, NoResults or
\* Fetching, Parsing, Aggregating, Done, with Failed after any state that
\* is not terminal
AllowedTransition(from, to) ==
    \/ from = "Idle" /\ to \in {"Searching", "Failed"}
    \/ from = "Searching" /\ to \in {"NoResults", "Fetching", "Failed"}
    \/ from = "Fetching" /\ to \in {"Parsing", "Failed"}
    \/ from = "Parsing" /\ to \in {"Aggregating", "Failed"}
    \/ from = "Aggregating" /\ to \in {"Aggregating", "Done", "Failed"}

\* the calls made so far fit the position: one search once the invocation
\* left Idle, one fetch once it went past Searching with identifiers, none
\* otherwise; a non-empty result only in Done
CallsFitPosition ==
    /\ Len(esearch_calls) = (IF pc = "Idle" THEN 0 ELSE 1)
    /\ Len(efetch_calls) <= 1
    /\ efetch_calls # << >> => (Len(esearch_calls) = 1 /\ id_list # << >>)
    /\ pc \in {"Fetching", "Parsing", "Aggregating", "Done"} => Len(efetch_calls) = 1
    /\ pc \in {"Idle", "Searching", "NoResults"} => efetch_calls = << >>
    /\ result # << >> => pc = "Done"

\* C17: an invocation follows the state machine; the search collaborator
\* is called exactly once and before any fetch, the fetch collaborator at
\* most once and only after a non-empty identifier list; nothing happens
\* after NoResults, Done or Failed (no retry); one of them is eventually
\* reached; a non-empty result is returned only from Done.
C17_InvocationLifeCycle ==
    /\ [](CallsFitPosition)
    /\ [][/\ AllowedTransition(pc, pc')
          /\ Len(esearch_calls') >= Len(esearch_calls)
          /\ Len(efetch_calls') >= Len(efetch_calls)]_vars
    /\ <>(pc \in Terminal)
    /\ [](pc \in Terminal => [](pc \in Terminal))

\* an invocation went through search, fetch, parse and aggregation and
\* returned two rows
C17_Witness ==
    /\ pc = "Done"
    /\ Len(result) = 2
    /\ Len(esearch_calls) = 1
    /\ Len(efetch_calls) = 1
    /\ efetch_calls[1].id = id_list

=============================================================================
